---- MODULE Spec2Model ----
(***************************************************************************)
(* The analytics dashboard: App with its views and filter state, the      *)
(* controls of FilterControls with their numeric inputs, generateMockData  *)
(* with applyStaffFilter, the chartData aggregation, reload timers and     *)
(* pagination of ActiveCustomersChart, and the modals of FunnelDashboard:  *)
(* the load cycle and summary statistics of UpsellDetailDashboard, the     *)
(* staff buckets of ActiveAccountsDetailDashboard and the cohorts of       *)
(* CohortAnalysisDashboard.                                                *)
(*                                                                         *)
(* Conventions.                                                            *)
(*  - A calendar date (an ISO 'YYYY-MM-DD' string in the source) is the    *)
(*    number of its day counted from 2024-12-31, so that 2025-01-01 is 1   *)
(*    and 2025-01-31 is 31; ISO strings order as these numbers do.         *)
(*  - appointyId 'APT000i' is the loop index i it is formatted from.       *)
(*  - An optional field that is undefined (StaffFilter.value2) is a field  *)
(*    the record does not have.                                            *)
(*  - A quotient of two numbers (bayesianNormal) is the pair num/den of    *)
(*    the dividend and divisor the code divides.                           *)
(*  - Math.random() is a nondeterministic choice: the candidates of one    *)
(*    generateMockData call are chosen by the action that makes the call.  *)
(***************************************************************************)
EXTENDS Integers, Sequences, FiniteSets, TLC

VARIABLES
  currentView,   \* App.currentView
  filters,       \* App.filters, the props of ActiveCustomersChart
  customers,     \* ActiveCustomersChart.customers
  drawn,         \* the customer objects built by the last generateMockData call
  currentPage,   \* ActiveCustomersChart.currentPage
  loading,       \* ActiveCustomersChart.loading
  viewMode,      \* ActiveCustomersChart.viewMode
  timers,        \* pending load timers, oldest first: the filters each closure holds
  showUpsell,    \* FunnelDashboard.showUpsellDetailDashboard (the modal's isOpen)
  upsellFilters, \* FunnelDashboard.upsellFilters
  upsellData,    \* UpsellDetailDashboard.upsellData
  upsellLoading, \* UpsellDetailDashboard.loading
  upsellTimers,  \* pending load timers of the modal: the filters each closure holds
  showDetail,    \* FunnelDashboard.showDetailDashboard
  detailFilters, \* FunnelDashboard.detailFilters: xAxis and staffBuckets
  clock,         \* the last value Date.now() returned
  wasEmpty,      \* history: the bucket list has been empty
  showCohort,    \* FunnelDashboard.showCohortAnalysisDashboard
  cohortFilters, \* FunnelDashboard.cohortAnalysisFilters: cohortPeriod and cohortRange
  cohortData,    \* CohortAnalysisDashboard.cohortData
  cohortLoading, \* CohortAnalysisDashboard.loading
  cohortTimers,  \* pending load timers of the modal: the filters each closure holds
  cohortToday    \* the date new Date() gave the last generateMockCohortData call

appVars == <<currentView>>

chartVars == <<filters, customers, drawn, currentPage, loading, viewMode, timers>>

upsellVars == <<showUpsell, upsellFilters, upsellData, upsellLoading, upsellTimers>>

bucketVars == <<showDetail, detailFilters, clock, wasEmpty>>

cohortVars ==
  <<showCohort, cohortFilters, cohortData, cohortLoading, cohortTimers, cohortToday>>

vars == <<appVars, chartVars, upsellVars, bucketVars, cohortVars>>

(***************************************************************************)
(* Bounds.  The source generates 150 candidates per load.                  *)
(***************************************************************************)
FilterPopSize == 2
RangePopSize == 2
ChartPopSize == 3
ReloadPopSize == 2
\* Filter changes made while loads are pending.
MaxPending == 2
\* Upsell loads pending at one time.
MaxUpsellPending == 2
\* Characters typed into a numeric input.
MaxTextLen == 2

(***************************************************************************)
(* Value lists of the generator.                                           *)
(***************************************************************************)
professions == <<"Healthcare", "Beauty", "Fitness", "Education", "Legal">>
countries == <<"USA", "Canada", "UK", "Australia", "India">>
memberships == <<"Basic", "Pro", "Premium", "Enterprise">>

ViewModes == {"profession", "membership", "country"}

(***************************************************************************)
(* App's initial filters.                                                  *)
(***************************************************************************)
AppFilters ==
  [startDate |-> 1, endDate |-> 31,
   professions |-> <<>>, countries |-> <<>>, memberships |-> <<>>,
   staffFilter |-> [operator |-> "gte", value1 |-> 0]]

includes_fromSecond(arr, v) == \E k \in 2..Len(arr) : arr[k] = v

\* Array.prototype.includes
includes(arr, v) == \E k \in 1..Len(arr) : arr[k] = v

applyStaffFilter_between_closed(staffCount, filter) ==
  CASE filter.operator = "gte" -> staffCount >= filter.value1
    [] filter.operator = "gt" -> staffCount > filter.value1
    [] filter.operator = "lte" -> staffCount <= filter.value1
    [] filter.operator = "lt" -> staffCount < filter.value1
    [] filter.operator = "eq" -> staffCount = filter.value1
    [] filter.operator = "between" ->
         IF "value2" \in DOMAIN filter
           THEN staffCount >= filter.value1 /\ staffCount <= filter.value2
           ELSE FALSE
    [] OTHER -> TRUE

applyStaffFilter_between_open(staffCount, filter) ==
  CASE filter.operator = "gte" -> staffCount >= filter.value1
    [] filter.operator = "gt" -> staffCount > filter.value1
    [] filter.operator = "lte" -> staffCount <= filter.value1
    [] filter.operator = "lt" -> staffCount < filter.value1
    [] filter.operator = "eq" -> staffCount = filter.value1
    [] filter.operator = "between" ->
         IF "value2" \in DOMAIN filter
           THEN staffCount >= filter.value1 /\ staffCount < filter.value2
           ELSE staffCount >= filter.value1
    [] OTHER -> TRUE

applyStaffFilter_between_swapped(staffCount, filter) ==
  CASE filter.operator = "gte" -> staffCount >= filter.value1
    [] filter.operator = "gt" -> staffCount > filter.value1
    [] filter.operator = "lte" -> staffCount <= filter.value1
    [] filter.operator = "lt" -> staffCount < filter.value1
    [] filter.operator = "eq" -> staffCount = filter.value1
    [] filter.operator = "between" ->
         IF "value2" \in DOMAIN filter
           THEN IF filter.value2 < filter.value1
                  THEN staffCount >= filter.value2 /\ staffCount <= filter.value1
                  ELSE staffCount >= filter.value1 /\ staffCount <= filter.value2
           ELSE staffCount >= filter.value1
    [] OTHER -> TRUE

applyStaffFilter(staffCount, filter) ==
  CASE filter.operator = "gte" -> staffCount >= filter.value1
    [] filter.operator = "gt" -> staffCount > filter.value1
    [] filter.operator = "lte" -> staffCount <= filter.value1
    [] filter.operator = "lt" -> staffCount < filter.value1
    [] filter.operator = "eq" -> staffCount = filter.value1
    [] filter.operator = "between" ->
         IF "value2" \in DOMAIN filter
           THEN staffCount >= filter.value1 /\ staffCount <= filter.value2
           ELSE staffCount >= filter.value1
    [] OTHER -> TRUE

(***************************************************************************)
(* generateMockData: the loop over the candidates; each 'continue' skips   *)
(* the push.  cands[i] is the customer object built in iteration i.        *)
(***************************************************************************)
RECURSIVE generateLoop(_, _, _, _)
generateLoop(f, cands, i, acc) ==
  IF i > Len(cands) THEN acc
  ELSE LET customer == cands[i] IN
    IF Len(f.professions) > 0 /\ ~includes(f.professions, customer.profession)
      THEN generateLoop(f, cands, i + 1, acc)
    ELSE IF Len(f.countries) > 0 /\ ~includes(f.countries, customer.country)
      THEN generateLoop(f, cands, i + 1, acc)
    ELSE IF Len(f.memberships) > 0 /\ ~includes(f.memberships, customer.membership)
      THEN generateLoop(f, cands, i + 1, acc)
    ELSE IF ~applyStaffFilter(customer.staffCount, f.staffFilter)
      THEN generateLoop(f, cands, i + 1, acc)
    ELSE generateLoop(f, cands, i + 1, Append(acc, customer))

RECURSIVE generateLoop_noCountry(_, _, _, _)
generateLoop_noCountry(f, cands, i, acc) ==
  IF i > Len(cands) THEN acc
  ELSE LET customer == cands[i] IN
    IF Len(f.professions) > 0 /\ ~includes(f.professions, customer.profession)
      THEN generateLoop_noCountry(f, cands, i + 1, acc)
    ELSE IF Len(f.memberships) > 0 /\ ~includes(f.memberships, customer.membership)
      THEN generateLoop_noCountry(f, cands, i + 1, acc)
    ELSE IF ~applyStaffFilter(customer.staffCount, f.staffFilter)
      THEN generateLoop_noCountry(f, cands, i + 1, acc)
    ELSE generateLoop_noCountry(f, cands, i + 1, Append(acc, customer))

RECURSIVE generateLoop_emptyExcludes(_, _, _, _)
generateLoop_emptyExcludes(f, cands, i, acc) ==
  IF i > Len(cands) THEN acc
  ELSE LET customer == cands[i] IN
    IF ~includes(f.professions, customer.profession)
      THEN generateLoop_emptyExcludes(f, cands, i + 1, acc)
    ELSE IF Len(f.countries) > 0 /\ ~includes(f.countries, customer.country)
      THEN generateLoop_emptyExcludes(f, cands, i + 1, acc)
    ELSE IF Len(f.memberships) > 0 /\ ~includes(f.memberships, customer.membership)
      THEN generateLoop_emptyExcludes(f, cands, i + 1, acc)
    ELSE IF ~applyStaffFilter(customer.staffCount, f.staffFilter)
      THEN generateLoop_emptyExcludes(f, cands, i + 1, acc)
    ELSE generateLoop_emptyExcludes(f, cands, i + 1, Append(acc, customer))

RECURSIVE generateLoop_dropFirst(_, _, _, _)
generateLoop_dropFirst(f, cands, i, acc) ==
  IF i > Len(cands) THEN acc
  ELSE LET customer == cands[i] IN
    IF i = 1
      THEN generateLoop_dropFirst(f, cands, i + 1, acc)
    ELSE IF Len(f.professions) > 0 /\ ~includes(f.professions, customer.profession)
      THEN generateLoop_dropFirst(f, cands, i + 1, acc)
    ELSE IF Len(f.countries) > 0 /\ ~includes(f.countries, customer.country)
      THEN generateLoop_dropFirst(f, cands, i + 1, acc)
    ELSE IF Len(f.memberships) > 0 /\ ~includes(f.memberships, customer.membership)
      THEN generateLoop_dropFirst(f, cands, i + 1, acc)
    ELSE IF ~applyStaffFilter(customer.staffCount, f.staffFilter)
      THEN generateLoop_dropFirst(f, cands, i + 1, acc)
    ELSE generateLoop_dropFirst(f, cands, i + 1, Append(acc, customer))

RECURSIVE generateLoop_unshift(_, _, _, _)
generateLoop_unshift(f, cands, i, acc) ==
  IF i > Len(cands) THEN acc
  ELSE LET customer == cands[i] IN
    IF Len(f.professions) > 0 /\ ~includes(f.professions, customer.profession)
      THEN generateLoop_unshift(f, cands, i + 1, acc)
    ELSE IF Len(f.countries) > 0 /\ ~includes(f.countries, customer.country)
      THEN generateLoop_unshift(f, cands, i + 1, acc)
    ELSE IF Len(f.memberships) > 0 /\ ~includes(f.memberships, customer.membership)
      THEN generateLoop_unshift(f, cands, i + 1, acc)
    ELSE IF ~applyStaffFilter(customer.staffCount, f.staffFilter)
      THEN generateLoop_unshift(f, cands, i + 1, acc)
    ELSE generateLoop_unshift(f, cands, i + 1, <<customer>> \o acc)

generateMockData_unshift(f, cands) == generateLoop_unshift(f, cands, 1, <<>>)

generateMockData_noCountry(f, cands) == generateLoop_noCountry(f, cands, 1, <<>>)

generateMockData_emptyExcludes(f, cands) == generateLoop_emptyExcludes(f, cands, 1, <<>>)

generateMockData_dropFirst(f, cands) == generateLoop_dropFirst(f, cands, 1, <<>>)

generateMockData(f, cands) == generateLoop(f, cands, 1, <<>>)

\* The filters object after a generateMockData call: the function reads
\* the lists (length, includes) and staffFilter and writes nothing to them.
generateMockDataArgument(f) == f

\* An in-place reversal of the argument.
chartDataArgument_reversed(cs, mode) == [i \in 1..Len(cs) |-> cs[Len(cs) + 1 - i]]

\* The customers array after chartData was computed from it: d3.group and
\* reduce read it, and sort acts on the array Array.from has built.
chartDataArgument(cs, mode) == cs

(***************************************************************************)
(* The candidates one call can build: n customer objects, the i-th with    *)
(* appointyId i and its random fields drawn from Attrs.                    *)
(***************************************************************************)
Candidates(n, Attrs) ==
  { [i \in 1..n |->
       [appointyId |-> i,
        profession |-> r[i].profession, country |-> r[i].country,
        membership |-> r[i].membership, staffCount |-> r[i].staffCount,
        monthlyAppointmentCount |-> r[i].monthlyAppointmentCount,
        validTill |-> r[i].validTill]] :
    r \in [1..n -> Attrs] }

(***************************************************************************)
(* FunnelDashboard's initial state for the Upsell modal: closed, its data  *)
(* array empty, no timer pending.                                          *)
(***************************************************************************)
UpsellInitialFilters ==
  [staffCount |-> [min |-> 0, max |-> 100], xAxis |-> "profession"]

UpsellClosed ==
  /\ showUpsell = FALSE
  /\ upsellFilters = UpsellInitialFilters
  /\ upsellData = <<>>
  /\ upsellLoading = FALSE
  /\ upsellTimers = <<>>

(***************************************************************************)
(* FunnelDashboard's initial state for the ActiveAccountsDetailDashboard   *)
(* modal.  Of detailFilters the model keeps xAxis and staffBuckets.  A     *)
(* bucket id is a number: the initial ids '1', '2', '3' are 1, 2, 3 and    *)
(* the values of Date.now() are counted on from there.  A bucket name is a *)
(* tuple: <<text>> for a literal name, <<"Bucket", n>> for `Bucket ${n}`.  *)
(***************************************************************************)
DetailInitialFilters ==
  [xAxis |-> "profession",
   staffBuckets |->
     << [id |-> 1, name |-> <<"Small (1-10)">>, min |-> 1, max |-> 10],
        [id |-> 2, name |-> <<"Medium (11-50)">>, min |-> 11, max |-> 50],
        [id |-> 3, name |-> <<"Large (51+)">>, min |-> 51, max |-> 999] >>]

DetailClosed ==
  /\ showDetail = FALSE
  /\ detailFilters = DetailInitialFilters
  /\ clock = Len(DetailInitialFilters.staffBuckets)
  /\ wasEmpty = FALSE

(***************************************************************************)
(* FunnelDashboard's initial state for the CohortAnalysisDashboard modal.  *)
(* Of cohortAnalysisFilters the model keeps cohortPeriod and cohortRange.  *)
(***************************************************************************)
CohortInitialFilters == [cohortPeriod |-> "weekly", cohortRange |-> "6months"]

CohortClosed ==
  /\ showCohort = FALSE
  /\ cohortFilters = CohortInitialFilters
  /\ cohortData = <<>>
  /\ cohortLoading = FALSE
  /\ cohortTimers = <<>>
  /\ cohortToday = <<>>

\* FunnelDashboard as constructed; also the values the model keeps for its
\* state while another view is shown.
FunnelInitial == UpsellClosed /\ DetailClosed /\ CohortClosed

(***************************************************************************)
(* ActiveCustomersChart mounted with the props filters f: the load effect  *)
(* has set loading and its timer, whose closure holds f, is pending.       *)
(***************************************************************************)
Mounted(F) ==
  /\ filters \in F
  /\ customers = <<>>
  /\ drawn = <<>>
  /\ currentPage = 1
  /\ loading = TRUE
  /\ viewMode = "profession"
  /\ timers = <<filters>>
  /\ currentView = "active-customers"
  /\ FunnelInitial

\* The setTimeout callback of the load effect.  All timers have the same
\* delay, so the oldest fires first; its closure holds the filters of the
\* render that scheduled it.  The render that follows recomputes chartData.
LoadTimer_newestFirst(C) ==
  /\ timers # <<>>
  /\ \E cands \in C :
       /\ drawn' = cands
       /\ customers' =
            chartDataArgument(generateMockData(timers[Len(timers)], cands), viewMode)
  /\ currentPage' = 1
  /\ loading' = FALSE
  /\ timers' = SubSeq(timers, 1, Len(timers) - 1)
  /\ filters' = filters
  /\ UNCHANGED viewMode
  /\ UNCHANGED <<appVars, upsellVars, bucketVars, cohortVars>>

LoadTimer(C) ==
  /\ timers # <<>>
  /\ \E cands \in C :
       /\ drawn' = cands
       /\ customers' = chartDataArgument(generateMockData(Head(timers), cands), viewMode)
  /\ currentPage' = 1
  /\ loading' = FALSE
  /\ timers' = Tail(timers)
  /\ filters' = IF Head(timers) = filters
                  THEN generateMockDataArgument(filters) ELSE filters
  /\ UNCHANGED viewMode
  /\ UNCHANGED <<appVars, upsellVars, bucketVars, cohortVars>>

SetViewMode_clears(mode) ==
  /\ viewMode' = mode
  /\ customers' = <<>>
  /\ UNCHANGED <<filters, drawn, currentPage, loading, timers>>
  /\ UNCHANGED <<appVars, upsellVars, bucketVars, cohortVars>>

\* onClick of a 'View by' button; the render that follows recomputes
\* chartData for the new mode.
SetViewMode(mode) ==
  /\ viewMode' = mode
  /\ customers' = chartDataArgument(customers, mode)
  /\ UNCHANGED <<filters, drawn, currentPage, loading, timers>>
  /\ UNCHANGED <<appVars, upsellVars, bucketVars, cohortVars>>

(***************************************************************************)
(* SpecRange: the numeric filter and the date range.  The categorical      *)
(* lists are empty; staff counts, thresholds and dates vary.               *)
(***************************************************************************)
RangeStaffCounts == {4, 5, 10, 11}
RangeThresholds == {0, 5, 10}
RangeOperators == {"gte", "gt", "lte", "lt", "eq", "between"}
RangeValidTills == {20, 200}
RangeDateRanges == {<<1, 31>>, <<100, 300>>}

RangeStaffFilters ==
  [operator : RangeOperators, value1 : RangeThresholds]
    \cup [operator : {"between"}, value1 : RangeThresholds, value2 : RangeThresholds]

RangeFilters ==
  { [AppFilters EXCEPT !.startDate = d[1], !.endDate = d[2], !.staffFilter = s] :
      d \in RangeDateRanges, s \in RangeStaffFilters }

RangeCandidates ==
  Candidates(RangePopSize,
             [profession : {"Healthcare"}, country : {"USA"}, membership : {"Basic"},
              staffCount : RangeStaffCounts, monthlyAppointmentCount : {5},
              validTill : RangeValidTills])

InitRange == Mounted(RangeFilters)

NextRange == LoadTimer(RangeCandidates)

SpecRange == InitRange /\ [][NextRange]_vars

(***************************************************************************)
(* SpecFilter: the categorical inclusion lists together with the numeric   *)
(* filter.  Professions, countries, memberships and staff counts vary.     *)
(***************************************************************************)
FilterProfessionLists ==
  {<<>>, <<"Healthcare">>, <<"Beauty">>, <<"Healthcare", "Beauty">>}
FilterCountryLists == {<<>>, <<"USA">>, <<"Canada", "Germany">>}
FilterMembershipLists == {<<>>, <<"Pro">>, <<"Basic", "Pro">>}
FilterStaffFilters ==
  {[operator |-> "gte", value1 |-> 0], [operator |-> "gte", value1 |-> 2],
   [operator |-> "lt", value1 |-> 2]}

FilterFilters ==
  { [AppFilters EXCEPT !.professions = p, !.countries = c, !.memberships = m,
                       !.staffFilter = s] :
      p \in FilterProfessionLists, c \in FilterCountryLists,
      m \in FilterMembershipLists, s \in FilterStaffFilters }

FilterCandidates ==
  Candidates(FilterPopSize,
             [profession : {"Healthcare", "Beauty"}, country : {"USA", "Canada"},
              membership : {"Basic", "Pro"}, staffCount : {1, 2},
              monthlyAppointmentCount : {5}, validTill : {200}])

InitFilter == Mounted(FilterFilters)

NextFilter == LoadTimer(FilterCandidates)

SpecFilter == InitFilter /\ [][NextFilter]_vars

(***************************************************************************)
(* chartData of ActiveCustomersChart: d3.group by the view mode's key,     *)
(* one row per group, rows sorted by the comparator b.accounts-a.accounts. *)
(***************************************************************************)
\* The key function handed to d3.group.
groupKey(d, mode) ==
  CASE mode = "profession" -> d.profession
    [] mode = "membership" -> d.membership
    [] mode = "country" -> d.country
    [] OTHER -> d.profession

\* The keys of the Map d3.group builds, in insertion order: a key is
\* inserted when its first customer is met.
RECURSIVE groupKeys(_, _, _, _)
groupKeys(cs, mode, i, keys) ==
  IF i > Len(cs) THEN keys
  ELSE IF includes(keys, groupKey(cs[i], mode))
    THEN groupKeys(cs, mode, i + 1, keys)
    ELSE groupKeys(cs, mode, i + 1, Append(keys, groupKey(cs[i], mode)))

RECURSIVE groupKeys_noDedup(_, _, _, _)
groupKeys_noDedup(cs, mode, i, keys) ==
  IF i > Len(cs) THEN keys
  ELSE groupKeys_noDedup(cs, mode, i + 1, Append(keys, groupKey(cs[i], mode)))

d3group_noDedup(cs, mode) ==
  LET keys == groupKeys_noDedup(cs, mode, 1, <<>>) IN
  [k \in 1..Len(keys) |->
     [category |-> keys[k],
      customerList |-> SelectSeq(cs, LAMBDA d : groupKey(d, mode) = keys[k])]]

\* The entries [category, customerList] of the Map, in insertion order; a
\* group's customers keep their order in cs.
d3group(cs, mode) ==
  LET keys == groupKeys(cs, mode, 1, <<>>) IN
  [k \in 1..Len(keys) |->
     [category |-> keys[k],
      customerList |-> SelectSeq(cs, LAMBDA d : groupKey(d, mode) = keys[k])]]

RECURSIVE reduceSum_skipLast(_, _, _)
reduceSum_skipLast(list, i, sum) ==
  IF i >= Len(list) THEN sum
  ELSE reduceSum_skipLast(list, i + 1, sum + list[i].monthlyAppointmentCount)

sumAppointments_skipLast(customerList) == reduceSum_skipLast(customerList, 1, 0)

\* customerList.reduce((sum, c) => sum + c.monthlyAppointmentCount, 0)
RECURSIVE reduceSum(_, _, _)
reduceSum(list, i, sum) ==
  IF i > Len(list) THEN sum
  ELSE reduceSum(list, i + 1, sum + list[i].monthlyAppointmentCount)

sumAppointments(customerList) == reduceSum(customerList, 1, 0)

\* The quotient (appointments + prior) / (accounts + priorCount) as num/den.
calculateBayesianNormal(appointments, accounts) ==
  LET prior == 20
      priorCount == 5
  IN [num |-> appointments + prior, den |-> accounts + priorCount]

\* The row built for one Map entry.
chartRow(entry) ==
  LET appointments == sumAppointments(entry.customerList)
      accounts == Len(entry.customerList)
      bayesianNormal == calculateBayesianNormal(appointments, accounts)
  IN [category |-> entry.category, appointments |-> appointments,
      accounts |-> accounts, bayesianNormal |-> bayesianNormal,
      customers |-> entry.customerList]

\* The comparator of the sort.
compareRows(a, b) == b.accounts - a.accounts

\* Array.prototype.sort is stable: x goes behind every row it does not
\* strictly precede.
RECURSIVE insertRow(_, _)
insertRow(sorted, x) ==
  IF sorted = <<>> THEN <<x>>
  ELSE IF compareRows(Head(sorted), x) <= 0
    THEN <<Head(sorted)>> \o insertRow(Tail(sorted), x)
    ELSE <<x>> \o sorted

RECURSIVE sortRows(_, _, _)
sortRows(rows, i, sorted) ==
  IF i > Len(rows) THEN sorted
  ELSE sortRows(rows, i + 1, insertRow(sorted, rows[i]))

chartData(cs, mode) ==
  IF Len(cs) = 0 THEN <<>>
  ELSE LET grouped == d3group(cs, mode) IN
       sortRows([k \in 1..Len(grouped) |-> chartRow(grouped[k])], 1, <<>>)

(***************************************************************************)
(* The summary cards of ActiveCustomersChart, computed from chartData.     *)
(***************************************************************************)
\* chartData.reduce((sum, d) => sum + d.appointments, 0)
RECURSIVE reduceAppointments(_, _, _)
reduceAppointments(rows, i, sum) ==
  IF i > Len(rows) THEN sum
  ELSE reduceAppointments(rows, i + 1, sum + rows[i].appointments)

totalAppointments(rows) == reduceAppointments(rows, 1, 0)

\* chartData.reduce((sum, d) => sum + d.accounts, 0)
RECURSIVE reduceAccounts(_, _, _)
reduceAccounts(rows, i, sum) ==
  IF i > Len(rows) THEN sum
  ELSE reduceAccounts(rows, i + 1, sum + rows[i].accounts)

totalAccounts_countsRows(rows) == Len(rows)

totalAccounts(rows) == reduceAccounts(rows, 1, 0)

\* The sum of two quotients.
addQuotients(a, b) ==
  [num |-> a.num * b.den + b.num * a.den, den |-> a.den * b.den]

\* chartData.reduce((sum, d) => sum + d.bayesianNormal, 0)
RECURSIVE reduceBayesianNormal(_, _, _)
reduceBayesianNormal(rows, i, sum) ==
  IF i > Len(rows) THEN sum
  ELSE reduceBayesianNormal(rows, i + 1, addQuotients(sum, rows[i].bayesianNormal))

avgBayesianNormal_unguarded(rows) ==
  LET sum == reduceBayesianNormal(rows, 1, [num |-> 0, den |-> 1])
  IN [num |-> sum.num, den |-> sum.den * Len(rows)]

\* The quotient sum / chartData.length when there are rows, else the
\* literal '0' (the number 0 as 0/1).
avgBayesianNormal(rows) ==
  IF Len(rows) > 0
    THEN LET sum == reduceBayesianNormal(rows, 1, [num |-> 0, den |-> 1])
         IN [num |-> sum.num, den |-> sum.den * Len(rows)]
    ELSE [num |-> 0, den |-> 1]

(***************************************************************************)
(* SpecChart: the aggregation.  App's initial filters retain everybody;    *)
(* the categories and appointment counts of the customers vary, and the    *)
(* view mode is switched.                                                  *)
(***************************************************************************)
\* Two professions in every combination with two countries and two
\* memberships, and a third profession in one combination.
ChartAttrs ==
  { a \in [profession : {"Healthcare", "Beauty", "Fitness"},
           country : {"USA", "Canada"}, membership : {"Basic", "Pro"},
           staffCount : {3}, monthlyAppointmentCount : {5, 40}, validTill : {200}] :
      a.profession = "Fitness" => (a.country = "USA" /\ a.membership = "Basic") }

ChartCandidates == Candidates(ChartPopSize, ChartAttrs)

InitChart == Mounted({AppFilters})

NextChart ==
  \/ LoadTimer(ChartCandidates)
  \/ \E mode \in ViewModes : SetViewMode(mode)

SpecChart == InitChart /\ [][NextChart]_vars

(***************************************************************************)
(* Numeric inputs.  The text of an input is a sequence of characters.      *)
(* parseInt skips leading white space, reads a sign, reads the prefix 0x   *)
(* as radix 16, and converts the longest prefix of digits; without a digit *)
(* the result is NaN.  A parse result is the record [isNaN, value]; the    *)
(* filters hold numbers only.                                              *)
(***************************************************************************)
DigitValue ==
  [c \in {"0", "1", "2", "3", "4", "5", "6", "7", "8", "9",
          "a", "b", "c", "d", "e", "f"} |->
     CASE c = "0" -> 0 [] c = "1" -> 1 [] c = "2" -> 2 [] c = "3" -> 3
       [] c = "4" -> 4 [] c = "5" -> 5 [] c = "6" -> 6 [] c = "7" -> 7
       [] c = "8" -> 8 [] c = "9" -> 9 [] c = "a" -> 10 [] c = "b" -> 11
       [] c = "c" -> 12 [] c = "d" -> 13 [] c = "e" -> 14 [] c = "f" -> 15]

isDigit(c, radix) == c \in DOMAIN DigitValue /\ DigitValue[c] < radix

RECURSIVE skipWhiteSpace(_)
skipWhiteSpace(text) ==
  IF text # <<>> /\ Head(text) = " " THEN skipWhiteSpace(Tail(text)) ELSE text

RECURSIVE parseDigits(_, _, _, _)
parseDigits(text, radix, value, seen) ==
  IF text # <<>> /\ isDigit(Head(text), radix)
    THEN parseDigits(Tail(text), radix, value * radix + DigitValue[Head(text)], TRUE)
    ELSE [isNaN |-> ~seen, value |-> value]

parseInt(text) ==
  LET trimmed == skipWhiteSpace(text)
      signed == trimmed # <<>> /\ Head(trimmed) \in {"-", "+"}
      negative == trimmed # <<>> /\ Head(trimmed) = "-"
      unsigned == IF signed THEN Tail(trimmed) ELSE trimmed
      hex == Len(unsigned) >= 2 /\ unsigned[1] = "0" /\ unsigned[2] = "x"
      digits == IF hex THEN parseDigits(Tail(Tail(unsigned)), 16, 0, FALSE)
                       ELSE parseDigits(unsigned, 10, 0, FALSE)
  IN IF negative /\ ~digits.isNaN
       THEN [isNaN |-> FALSE, value |-> 0 - digits.value]
       ELSE digits

orElse_zero(parsed, default) ==
  IF parsed.isNaN \/ parsed.value = 0 THEN 0 ELSE parsed.value

\* parsed || default: NaN and 0 are falsy.
orElse(parsed, default) ==
  IF parsed.isNaN \/ parsed.value = 0 THEN default ELSE parsed.value

\* parseInt(e.target.value) || default
numericInput(text, default) == orElse(parseInt(text), default)

\* The texts of at most MaxTextLen characters: digits, a sign, a letter.
InputChars == {"0", "5", "-", "x"}

Texts == UNION {[1..n -> InputChars] : n \in 0..MaxTextLen}

(***************************************************************************)
(* FilterControls: the handlers build a new filters object from the        *)
(* filters of the current render and pass it to onFiltersChange, which is  *)
(* setFilters of App.  An undefined value2 is an absent field.             *)
(***************************************************************************)
handleFilterChange(f, key, value) == [f EXCEPT ![key] = value]

handleMultiSelectChange_appends(f, key, value) ==
  LET currentValues == f[key]
      newValues == IF value = "all" THEN <<>> ELSE Append(currentValues, value)
  IN handleFilterChange(f, key, newValues)

handleMultiSelectChange(f, key, value) ==
  LET currentValues == f[key]
      newValues ==
        IF value = "all" THEN <<>>
        ELSE IF includes(currentValues, value)
          THEN SelectSeq(currentValues, LAMBDA v : v # value)
          ELSE Append(currentValues, value)
  IN handleFilterChange(f, key, newValues)

handleStaffFilterChange_keepsValue2(f, field, value) ==
  LET spread == [k \in DOMAIN f.staffFilter \cup {field} |->
                   IF k = field THEN value ELSE f.staffFilter[k]]
  IN handleFilterChange(f, "staffFilter", spread)

handleStaffFilterChange(f, field, value) ==
  LET spread == [k \in DOMAIN f.staffFilter \cup {field} |->
                   IF k = field THEN value ELSE f.staffFilter[k]]
      newStaffFilter ==
        IF field = "operator" /\ value # "between"
          THEN [k \in DOMAIN spread \ {"value2"} |-> spread[k]]
          ELSE spread
  IN handleFilterChange(f, "staffFilter", newStaffFilter)

\* setFilters with a new object: App renders again; when the customers
\* chart is the view shown, it receives the new filters and its load effect
\* sets loading and schedules a timer.
onFiltersChange(newFilters) ==
  /\ filters' = newFilters
  /\ IF currentView = "active-customers"
       THEN /\ Len(timers) < MaxPending
            /\ loading' = TRUE
            /\ timers' = Append(timers, newFilters)
       ELSE UNCHANGED <<loading, timers>>
  /\ UNCHANGED <<customers, drawn, currentPage, viewMode>>
  /\ UNCHANGED <<appVars, upsellVars, bucketVars, cohortVars>>

\* The date inputs.
DateChange(key, value) ==
  onFiltersChange(handleFilterChange(filters, key, value))

MultiSelectChange(key, value) ==
  onFiltersChange(handleMultiSelectChange(filters, key, value))

StaffFilterChange(field, value) ==
  onFiltersChange(handleStaffFilterChange(filters, field, value))

\* The inputs of value1 and value2.
StaffValueInput(field, text) ==
  StaffFilterChange(field, numericInput(text, 0))

(***************************************************************************)
(* App: the sidebar shows one dashboard view at a time.  The view that is  *)
(* left is unmounted and its state is lost: its pending timers change      *)
(* nothing any more.  The view that is entered is mounted with its initial *)
(* state; the customers chart runs its load effect.                        *)
(***************************************************************************)
DashboardViews == {"active-customers", "paid-customers", "churned-customers", "funnel"}

SetCurrentView_resetsFilters(view) ==
  /\ view # currentView
  /\ currentView' = view
  /\ filters' = AppFilters
  /\ IF view = "active-customers"
       THEN /\ customers' = <<>>
            /\ drawn' = <<>>
            /\ currentPage' = 1
            /\ loading' = TRUE
            /\ viewMode' = "profession"
            /\ timers' = <<AppFilters>>
       ELSE IF currentView = "active-customers"
         THEN /\ customers' = <<>>
              /\ drawn' = <<>>
              /\ currentPage' = 1
              /\ loading' = FALSE
              /\ viewMode' = "profession"
              /\ timers' = <<>>
         ELSE UNCHANGED <<customers, drawn, currentPage, loading, viewMode, timers>>
  /\ IF currentView = "funnel"
       THEN /\ showUpsell' = FALSE
            /\ upsellFilters' = UpsellInitialFilters
            /\ upsellData' = <<>>
            /\ upsellLoading' = FALSE
            /\ upsellTimers' = <<>>
            /\ showDetail' = FALSE
            /\ detailFilters' = DetailInitialFilters
            /\ wasEmpty' = FALSE
            /\ showCohort' = FALSE
            /\ cohortFilters' = CohortInitialFilters
            /\ cohortData' = <<>>
            /\ cohortLoading' = FALSE
            /\ cohortTimers' = <<>>
            /\ cohortToday' = <<>>
            /\ UNCHANGED clock
       ELSE UNCHANGED <<upsellVars, bucketVars, cohortVars>>

SetCurrentView(view) ==
  /\ view # currentView
  /\ currentView' = view
  /\ filters' = filters
  /\ IF view = "active-customers"
       THEN /\ customers' = <<>>
            /\ drawn' = <<>>
            /\ currentPage' = 1
            /\ loading' = TRUE
            /\ viewMode' = "profession"
            /\ timers' = <<filters>>
       ELSE IF currentView = "active-customers"
         THEN /\ customers' = <<>>
              /\ drawn' = <<>>
              /\ currentPage' = 1
              /\ loading' = FALSE
              /\ viewMode' = "profession"
              /\ timers' = <<>>
         ELSE UNCHANGED <<customers, drawn, currentPage, loading, viewMode, timers>>
  /\ IF currentView = "funnel"
       THEN /\ showUpsell' = FALSE
            /\ upsellFilters' = UpsellInitialFilters
            /\ upsellData' = <<>>
            /\ upsellLoading' = FALSE
            /\ upsellTimers' = <<>>
            /\ showDetail' = FALSE
            /\ detailFilters' = DetailInitialFilters
            /\ wasEmpty' = FALSE
            /\ showCohort' = FALSE
            /\ cohortFilters' = CohortInitialFilters
            /\ cohortData' = <<>>
            /\ cohortLoading' = FALSE
            /\ cohortTimers' = <<>>
            /\ cohortToday' = <<>>
            /\ UNCHANGED clock
       ELSE UNCHANGED <<upsellVars, bucketVars, cohortVars>>

(***************************************************************************)
(* SpecReload: the filters change while loads are pending.  The user       *)
(* toggles professions and sets the staff operator.                        *)
(***************************************************************************)
ReloadProfessions == {"Healthcare", "Beauty", "all"}
ReloadOperators == {"gte", "lt"}

ReloadCandidates ==
  Candidates(ReloadPopSize,
             [profession : {"Healthcare", "Beauty"}, country : {"USA"},
              membership : {"Basic"}, staffCount : {1},
              monthlyAppointmentCount : {5}, validTill : {200}])

InitReload == Mounted({AppFilters})

NextReload ==
  \/ LoadTimer(ReloadCandidates)
  \/ \E value \in ReloadProfessions : MultiSelectChange("professions", value)
  \/ \E value \in ReloadOperators : StaffFilterChange("operator", value)

SpecReload == InitReload /\ [][NextReload]_vars

(***************************************************************************)
(* UpsellDetailDashboard, the modal of FunnelDashboard.  The component is  *)
(* always mounted and renders nothing while isOpen is false.  Of the       *)
(* filters only xAxis is read.  A rate is held in percent.                 *)
(***************************************************************************)
XAxes == {"profession", "country", "membership"}

upsellCategories(f) ==
  IF f.xAxis = "profession"
    THEN <<"Doctor", "Nurse", "Therapist", "Administrator", "Specialist">>
  ELSE IF f.xAxis = "country"
    THEN <<"USA", "Canada", "UK", "Australia", "Germany">>
  ELSE <<"Basic", "Premium", "Enterprise", "Pro", "Starter">>

\* draws[k] holds the three Math.random results of category k: the
\* appointments before the upsell, the improvement rate in percent and the
\* accounts upsold.
generateMockUpsellData(f, draws) ==
  LET categories == upsellCategories(f) IN
  [k \in 1..Len(categories) |->
     LET beforeUpsell == draws[k].before
         improvementRate == draws[k].ratePct
         afterUpsell == (beforeUpsell * (100 + improvementRate)) \div 100
     IN [category |-> categories[k],
         appointmentsBeforeUpsell |-> beforeUpsell,
         appointmentsAfterUpsell |-> afterUpsell,
         accountsUpsold |-> draws[k].accounts,
         improvementPercentage |-> improvementRate]]

RECURSIVE reduceField(_, _, _)
reduceField(data, field, k) ==
  IF k > Len(data) THEN 0 ELSE data[k][field] + reduceField(data, field, k + 1)

\* avgImprovement is the quotient num / den as the code divides it.
getTotalStats(data) ==
  LET totalAccountsUpsold == reduceField(data, "accountsUpsold", 1)
      totalAppointmentsBefore == reduceField(data, "appointmentsBeforeUpsell", 1)
      totalAppointmentsAfter == reduceField(data, "appointmentsAfterUpsell", 1)
  IN [totalAccountsUpsold |-> totalAccountsUpsold,
      additionalAppointments |-> totalAppointmentsAfter - totalAppointmentsBefore,
      avgImprovement |->
        [num |-> reduceField(data, "improvementPercentage", 1), den |-> Len(data)]]

\* The load effect of the modal, run after a render in which isOpen or the
\* filters changed while isOpen is true.
upsellLoadEffect(f) ==
  /\ Len(upsellTimers) < MaxUpsellPending
  /\ upsellLoading' = TRUE
  /\ upsellTimers' = Append(upsellTimers, f)

OpenUpsell ==
  /\ currentView = "funnel"
  /\ ~showUpsell
  /\ showUpsell' = TRUE
  /\ upsellLoadEffect(upsellFilters)
  /\ UNCHANGED <<upsellFilters, upsellData>>
  /\ UNCHANGED <<appVars, chartVars, bucketVars, cohortVars>>

CloseUpsell ==
  /\ showUpsell
  /\ showUpsell' = FALSE
  /\ UNCHANGED <<upsellFilters, upsellData, upsellLoading, upsellTimers>>
  /\ UNCHANGED <<appVars, chartVars, bucketVars, cohortVars>>

\* onFiltersChange({ ...filters, ...updates }), called by the controls of
\* the modal, which are rendered while it is open.
spread(f, updates) ==
  [k \in DOMAIN f \cup DOMAIN updates |->
     IF k \in DOMAIN updates THEN updates[k] ELSE f[k]]

updateFilters(updates) ==
  /\ showUpsell
  /\ upsellFilters' = spread(upsellFilters, updates)
  /\ upsellLoadEffect(upsellFilters')
  /\ UNCHANGED <<showUpsell, upsellData>>
  /\ UNCHANGED <<appVars, chartVars, bucketVars, cohortVars>>

\* The inputs Min and Max of the staff count range.
staffCountMin(f, text) ==
  [staffCount |-> spread(f.staffCount, [min |-> numericInput(text, 0)])]

staffCountMax(f, text) ==
  [staffCount |-> spread(f.staffCount, [max |-> numericInput(text, 100)])]

UpsellLoadTimer_keepsLoading(D) ==
  /\ upsellTimers # <<>>
  /\ \E draws \in D : upsellData' = generateMockUpsellData(Head(upsellTimers), draws)
  /\ upsellTimers' = Tail(upsellTimers)
  /\ UNCHANGED <<showUpsell, upsellFilters, upsellLoading>>
  /\ UNCHANGED <<appVars, chartVars, bucketVars, cohortVars>>

UpsellLoadTimer(D) ==
  /\ upsellTimers # <<>>
  /\ \E draws \in D : upsellData' = generateMockUpsellData(Head(upsellTimers), draws)
  /\ upsellLoading' = FALSE
  /\ upsellTimers' = Tail(upsellTimers)
  /\ UNCHANGED <<showUpsell, upsellFilters>>
  /\ UNCHANGED <<appVars, chartVars, bucketVars, cohortVars>>

(***************************************************************************)
(* SpecUpsell: the funnel view with the upsell modal; the customers chart  *)
(* is not mounted.                                                         *)
(***************************************************************************)
UpsellDraws ==
  [1..5 -> [before : {50, 199}, ratePct : {20}, accounts : {5}]]

ChartUnmounted ==
  /\ filters = AppFilters
  /\ customers = <<>>
  /\ drawn = <<>>
  /\ currentPage = 1
  /\ loading = FALSE
  /\ viewMode = "profession"
  /\ timers = <<>>

InitUpsell == currentView = "funnel" /\ ChartUnmounted /\ FunnelInitial

NextUpsell ==
  \/ OpenUpsell
  \/ CloseUpsell
  \/ \E xAxis \in XAxes : updateFilters([xAxis |-> xAxis])
  \/ UpsellLoadTimer(UpsellDraws)

SpecUpsell == InitUpsell /\ [][NextUpsell]_vars

(***************************************************************************)
(* SpecInput: texts typed into numeric inputs in the funnel view: value1   *)
(* of FilterControls, and Min and Max of the open upsell modal.            *)
(***************************************************************************)
UpsellTexts == {<<>>, <<"x">>, <<"0">>, <<"5">>}

InputDraws ==
  {[k \in 1..5 |-> [before |-> 50, ratePct |-> 20, accounts |-> 5]]}

InitInput == InitUpsell

NextInput ==
  \/ \E text \in Texts : StaffValueInput("value1", text)
  \/ OpenUpsell
  \/ \E text \in UpsellTexts : updateFilters(staffCountMin(upsellFilters, text))
  \/ \E text \in UpsellTexts : updateFilters(staffCountMax(upsellFilters, text))
  \/ UpsellLoadTimer(InputDraws)

SpecInput == InitInput /\ [][NextInput]_vars

(***************************************************************************)
(* Pagination of the customer table.  Array indexes of the source are      *)
(* 0-based; slice(arr, start, end) holds the elements start..end-1.        *)
(***************************************************************************)
itemsPerPage == 50

MathMax(a, b) == IF a >= b THEN a ELSE b
MathMin(a, b) == IF a <= b THEN a ELSE b

\* Math.ceil(customers.length / itemsPerPage)
totalPages(cs) == (Len(cs) + itemsPerPage - 1) \div itemsPerPage

startIndex_fromPage(page) == page * itemsPerPage
startIndex(page) == (page - 1) * itemsPerPage

endIndex(page) == startIndex(page) + itemsPerPage

slice(arr, start, end) ==
  LET k == IF start < 0 THEN MathMax(Len(arr) + start, 0) ELSE MathMin(start, Len(arr))
      final == IF end < 0 THEN MathMax(Len(arr) + end, 0) ELSE MathMin(end, Len(arr))
  IN SubSeq(arr, k + 1, final)

currentCustomers(cs, page) == slice(cs, startIndex(page), endIndex(page))

\* The buttons are rendered when loading is false and disabled on the
\* first and the last page.
PreviousPage ==
  /\ ~loading
  /\ currentPage # 1
  /\ currentPage' = MathMax(1, currentPage - 1)
  /\ UNCHANGED <<filters, customers, drawn, loading, viewMode, timers>>
  /\ UNCHANGED <<appVars, upsellVars, bucketVars, cohortVars>>

NextPage ==
  /\ ~loading
  /\ currentPage # totalPages(customers)
  /\ currentPage' = MathMin(totalPages(customers), currentPage + 1)
  /\ UNCHANGED <<filters, customers, drawn, loading, viewMode, timers>>
  /\ UNCHANGED <<appVars, upsellVars, bucketVars, cohortVars>>

(***************************************************************************)
(* SpecPage: paging through the result of a completed load of the full     *)
(* 150 candidates under the staff filter lte 1.  The candidates with staff *)
(* count 1 are those whose number is a multiple of the stride and at most  *)
(* the cutoff; the others have staff count 2.  The filtered population has *)
(* every size 0..150.                                                      *)
(***************************************************************************)
candidateCount == 150

PageStrides == {1, 2}

PageFilters ==
  {[AppFilters EXCEPT !.staffFilter = [operator |-> "lte", value1 |-> 1]]}

PageCandidates ==
  { [i \in 1..candidateCount |->
       [appointyId |-> i,
        profession |-> "Healthcare", country |-> "USA", membership |-> "Basic",
        staffCount |-> IF i % stride = 0 /\ i <= cutoff THEN 1 ELSE 2,
        monthlyAppointmentCount |-> 5,
        validTill |-> 200]] :
    stride \in PageStrides, cutoff \in 0..candidateCount }

\* The chart after its load timer has fired: the customers are the
\* candidates that pass the staff filter, the only filter set.
PageLoaded ==
  /\ filters \in PageFilters
  /\ \E cands \in PageCandidates :
       /\ drawn = cands
       /\ customers =
            SelectSeq(cands, LAMBDA customer :
                               applyStaffFilter(customer.staffCount, filters.staffFilter))
  /\ currentPage = 1
  /\ loading = FALSE
  /\ viewMode = "profession"
  /\ timers = <<>>
  /\ currentView = "active-customers"
  /\ FunnelInitial

InitPage == PageLoaded

NextPageSpec ==
  \/ PreviousPage
  \/ NextPage

SpecPage == InitPage /\ [][NextPageSpec]_vars

(***************************************************************************)
(* Vocabulary of the claims.                                               *)
(***************************************************************************)
Loaded == loading = FALSE

\* Candidate i of the last generateMockData call is part of its result.
Retained(i) == \E j \in 1..Len(customers) : customers[j] = drawn[i]

NoCategoricalRestriction(f) ==
  f.professions = <<>> /\ f.countries = <<>> /\ f.memberships = <<>>

\* The operator table of the numeric filter, second threshold present.
StaffTable(v, op, t1, t2) ==
  CASE op = "eq" -> v = t1
    [] op = "gt" -> v > t1
    [] op = "gte" -> v >= t1
    [] op = "lt" -> v < t1
    [] op = "lte" -> v <= t1
    [] op = "between" -> t1 <= v /\ v <= t2

\* C2: with no categorical restriction, a candidate with staff count v is
\* retained exactly when v matches the operator table: eq v = t1, gt v > t1,
\* gte v >= t1, lt v < t1, lte v <= t1, between t1 <= v <= t2 (inclusive).
C2_OperatorTable ==
  (Loaded /\ NoCategoricalRestriction(filters)) =>
    LET sf == filters.staffFilter IN
    (sf.operator # "between" \/ "value2" \in DOMAIN sf) =>
      \A i \in 1..Len(drawn) :
        /\ applyStaffFilter(drawn[i].staffCount, sf)
             = StaffTable(drawn[i].staffCount, sf.operator, sf.value1,
                          IF "value2" \in DOMAIN sf THEN sf.value2 ELSE 0)
        /\ Retained(i)
             <=> StaffTable(drawn[i].staffCount, sf.operator, sf.value1,
                            IF "value2" \in DOMAIN sf THEN sf.value2 ELSE 0)

\* between 5 and 10: a candidate with staff count 10 is kept and one with
\* staff count 11 is dropped.
C2_Witness ==
  /\ Loaded
  /\ filters.staffFilter = [operator |-> "between", value1 |-> 5, value2 |-> 10]
  /\ \E i, k \in 1..Len(drawn) :
       /\ drawn[i].staffCount = 10 /\ Retained(i)
       /\ drawn[k].staffCount = 11 /\ ~Retained(k)

\* C3: operator 'between' without a second threshold matches exactly the
\* candidates whose staff count is at least value1.
C3_BetweenUnboundedAbove ==
  (Loaded /\ NoCategoricalRestriction(filters)
     /\ filters.staffFilter.operator = "between"
     /\ "value2" \notin DOMAIN filters.staffFilter) =>
    \A i \in 1..Len(drawn) :
      Retained(i) <=> drawn[i].staffCount >= filters.staffFilter.value1

\* between 10 and nothing: staff count 11 is kept, staff count 5 is dropped.
C3_Witness ==
  /\ Loaded
  /\ filters.staffFilter = [operator |-> "between", value1 |-> 10]
  /\ \E i, k \in 1..Len(drawn) :
       /\ drawn[i].staffCount = 11 /\ Retained(i)
       /\ drawn[k].staffCount = 5 /\ ~Retained(k)

\* C9: every customer of the filtered result has its validTill within
\* [startDate, endDate] inclusive.
C9_DateRangeApplied ==
  Loaded =>
    \A j \in 1..Len(customers) :
      /\ filters.startDate <= customers[j].validTill
      /\ customers[j].validTill <= filters.endDate

\* An inclusion list admits a value: the list is empty or holds the value.
ListAdmits(list, v) == list = <<>> \/ \E k \in 1..Len(list) : list[k] = v

\* C1: a generated customer is retained if and only if, for each of
\* profession, country and membership, the inclusion list is empty or holds
\* the customer's value, and applyStaffFilter holds of its staff count; the
\* result holds generated customers only.
C1_RetainedIffAll ==
  Loaded =>
    /\ \A i \in 1..Len(drawn) :
         Retained(i) <=>
           /\ ListAdmits(filters.professions, drawn[i].profession)
           /\ ListAdmits(filters.countries, drawn[i].country)
           /\ ListAdmits(filters.memberships, drawn[i].membership)
           /\ applyStaffFilter(drawn[i].staffCount, filters.staffFilter)
    /\ \A j \in 1..Len(customers) :
         \E i \in 1..Len(drawn) : customers[j] = drawn[i]

\* All three lists are non-empty; one candidate is kept, another is dropped
\* although its profession and membership are admitted.
C1_Witness ==
  /\ Loaded
  /\ filters.professions # <<>> /\ filters.countries # <<>>
  /\ filters.memberships # <<>>
  /\ \E i, k \in 1..Len(drawn) :
       /\ Retained(i)
       /\ ~Retained(k)
       /\ ListAdmits(filters.professions, drawn[k].profession)
       /\ ListAdmits(filters.memberships, drawn[k].membership)
       /\ applyStaffFilter(drawn[k].staffCount, filters.staffFilter)

\* C4: an empty inclusion list excludes nobody: a candidate that passes the
\* other two lists and the numeric filter is retained whatever its value for
\* the attribute of the empty list.
C4_EmptyListNoRestriction ==
  Loaded =>
    \A i \in 1..Len(drawn) :
      LET c == drawn[i]
          okP == ListAdmits(filters.professions, c.profession)
          okC == ListAdmits(filters.countries, c.country)
          okM == ListAdmits(filters.memberships, c.membership)
          okS == applyStaffFilter(c.staffCount, filters.staffFilter)
      IN /\ (filters.professions = <<>> /\ okC /\ okM /\ okS) => Retained(i)
         /\ (filters.countries = <<>> /\ okP /\ okM /\ okS) => Retained(i)
         /\ (filters.memberships = <<>> /\ okP /\ okC /\ okS) => Retained(i)

\* The professions list is empty, the other two are not, and two retained
\* customers differ in profession.
C4_Witness ==
  /\ Loaded
  /\ filters.professions = <<>> /\ filters.countries # <<>>
  /\ filters.memberships # <<>>
  /\ \E i, k \in 1..Len(customers) :
       customers[i].profession # customers[k].profession

\* The identity filter: every list empty, numeric filter gte 0.
IdentityFilter(f) ==
  /\ NoCategoricalRestriction(f)
  /\ f.staffFilter.operator = "gte" /\ f.staffFilter.value1 = 0

\* C10: under the identity filter the result equals the generated population.
C10_IdentityFilter ==
  (Loaded /\ IdentityFilter(filters)) => customers = drawn

\* App's initial filters, loaded, with candidates that differ in every
\* categorical attribute and in staff count.
C10_Witness ==
  /\ Loaded
  /\ filters = AppFilters
  /\ Len(customers) >= 2
  /\ customers[1].profession # customers[2].profession
  /\ customers[1].country # customers[2].country
  /\ customers[1].membership # customers[2].membership
  /\ customers[1].staffCount # customers[2].staffCount

\* The aggregate rows on display.
Rows == chartData(customers, viewMode)

\* The value of the selected grouping dimension.
Dimension(c) ==
  CASE viewMode = "profession" -> c.profession
    [] viewMode = "membership" -> c.membership
    [] viewMode = "country" -> c.country

\* The positions of the customers of one category.
Members(category) ==
  {j \in 1..Len(customers) : Dimension(customers[j]) = category}

RECURSIVE VolumeOf(_)
VolumeOf(S) ==
  IF S = {} THEN 0
  ELSE LET j == CHOOSE x \in S : TRUE
       IN customers[j].monthlyAppointmentCount + VolumeOf(S \ {j})

\* C5: every row's smoothed score is
\* (volumeSum + priorMean * priorWeight) / (memberCount + priorWeight)
\* with priorMean = 20 and priorWeight = 5.
C5_SmoothedScore ==
  LET rows == Rows IN
  \A k \in 1..Len(rows) :
    rows[k].bayesianNormal.num * (rows[k].accounts + 5)
      = (rows[k].appointments + 20 * 5) * rows[k].bayesianNormal.den

\* Every category label of the generator, in ascending string order.
AscendingLabels ==
  <<"Australia", "Basic", "Beauty", "Canada", "Education", "Enterprise",
    "Fitness", "Healthcare", "India", "Legal", "Premium", "Pro", "UK", "USA">>

LabelRank(label) == CHOOSE k \in 1..Len(AscendingLabels) : AscendingLabels[k] = label

\* C6: the rows are in descending order of member count, and rows of equal
\* member count are in ascending order of category label.
C6_SortedWithTieBreak ==
  LET rows == Rows IN
  \A k \in 1..(Len(rows) - 1) :
    \/ rows[k].accounts > rows[k + 1].accounts
    \/ /\ rows[k].accounts = rows[k + 1].accounts
       /\ LabelRank(rows[k].category) < LabelRank(rows[k + 1].category)

\* C7: for the selected grouping dimension, a row's accounts is the number
\* of filtered customers of the row's category and its appointments is the
\* sum of monthlyAppointmentCount over exactly those customers.
C7_CountAndVolume ==
  LET rows == Rows IN
  \A k \in 1..Len(rows) :
    /\ rows[k].accounts = Cardinality(Members(rows[k].category))
    /\ rows[k].appointments = VolumeOf(Members(rows[k].category))

\* Grouped by country: a row of two customers with different appointment
\* counts beside a second row.
C7_Witness ==
  /\ Loaded
  /\ viewMode = "country"
  /\ Len(Rows) = 2
  /\ Rows[1].accounts = 2
  /\ Rows[1].appointments = 45
  /\ \E i, j \in 1..Len(customers) :
       customers[i].profession # customers[j].profession

\* C8: one row per category observed among the filtered customers: no two
\* rows share a category, every observed category has a row, and no row has
\* zero members.
C8_OneRowPerObservedCategory ==
  LET rows == Rows IN
  /\ \A k, l \in 1..Len(rows) : rows[k].category = rows[l].category => k = l
  /\ {rows[k].category : k \in 1..Len(rows)}
       = {Dimension(customers[j]) : j \in 1..Len(customers)}
  /\ \A k \in 1..Len(rows) : rows[k].accounts > 0

\* Grouped by membership, three customers have two memberships between
\* them: two rows, the first of two members, and none for a membership that
\* no customer has.
C8_Witness ==
  /\ Loaded
  /\ viewMode = "membership"
  /\ Len(customers) = 3
  /\ Len(Rows) = 2
  /\ Rows[1].accounts = 2
  /\ \A k \in 1..Len(Rows) : Rows[k].category \notin {"Premium", "Enterprise"}

\* C11: with the other two lists empty and the numeric filter matching r,
\* restricting a dimension to the one-element list of r's own value keeps
\* r, and restricting it to a non-empty list without r's value excludes r.
C11_SingleCategory ==
  Loaded =>
    \A i \in 1..Len(drawn) :
      LET r == drawn[i]
          f == filters
          okS == applyStaffFilter(r.staffCount, f.staffFilter)
          Without(list, v) == list # <<>> /\ \A k \in 1..Len(list) : list[k] # v
      IN /\ (f.countries = <<>> /\ f.memberships = <<>> /\ okS) =>
              /\ f.professions = <<r.profession>> => Retained(i)
              /\ Without(f.professions, r.profession) => ~Retained(i)
         /\ (f.professions = <<>> /\ f.memberships = <<>> /\ okS) =>
              /\ f.countries = <<r.country>> => Retained(i)
              /\ Without(f.countries, r.country) => ~Retained(i)
         /\ (f.professions = <<>> /\ f.countries = <<>> /\ okS) =>
              /\ f.memberships = <<r.membership>> => Retained(i)
              /\ Without(f.memberships, r.membership) => ~Retained(i)

\* Only the professions list restricts, to Beauty: a Beauty candidate is
\* kept and a Healthcare candidate that passes the numeric filter is not.
C11_Witness ==
  /\ Loaded
  /\ filters.professions = <<"Beauty">>
  /\ filters.countries = <<>> /\ filters.memberships = <<>>
  /\ \E i, k \in 1..Len(drawn) :
       /\ drawn[i].profession = "Beauty" /\ Retained(i)
       /\ drawn[k].profession = "Healthcare" /\ ~Retained(k)
       /\ applyStaffFilter(drawn[k].staffCount, filters.staffFilter)

\* C12: the filtered result is an order-preserving subsequence of the
\* generated population: its customers are generated ones, in strictly
\* ascending order of appointyId, hence none twice.
C12_OrderPreservingSubsequence ==
  Loaded =>
    /\ \A j \in 1..Len(customers) :
         /\ customers[j].appointyId \in 1..Len(drawn)
         /\ customers[j] = drawn[customers[j].appointyId]
    /\ \A j, k \in 1..Len(customers) :
         j < k => customers[j].appointyId < customers[k].appointyId

\* A restricting filter keeps two candidates, which differ in profession.
C12_Witness ==
  /\ Loaded
  /\ filters.countries # <<>> /\ filters.staffFilter.value1 # 0
  /\ Len(customers) = 2
  /\ customers[1].profession # customers[2].profession

\* C13: an empty filtered population aggregates, for every grouping
\* dimension, to no rows, and the summary values shown for it are the
\* number 0: total appointments 0, total accounts 0, and an average
\* smoothed score of 0 that is no division by zero.
C13_EmptyPopulation ==
  customers = <<>> =>
    \A mode \in ViewModes :
      LET rows == chartData(customers, mode) IN
      /\ rows = <<>>
      /\ totalAppointments(rows) = 0
      /\ totalAccounts(rows) = 0
      /\ avgBayesianNormal(rows).den # 0
      /\ avgBayesianNormal(rows).num = 0

\* A load under a restricting filter that retained none of the candidates.
C13_Witness ==
  /\ Loaded
  /\ customers = <<>>
  /\ Len(drawn) > 0
  /\ filters.professions # <<>>

\* The bijections of 1..n.
Orderings(n) ==
  {p \in [1..n -> 1..n] : \A i, j \in 1..n : p[i] = p[j] => i = j}

\* The same customers generated in another order: position i holds the
\* attributes of the customer at position p[i].
Permuted(cs, p) == [i \in 1..Len(cs) |-> [cs[p[i]] EXCEPT !.appointyId = i]]

\* A row without the list of its customers.
Metrics(row) ==
  [category |-> row.category, accounts |-> row.accounts,
   appointments |-> row.appointments, bayesianNormal |-> row.bayesianNormal]

MetricsOf(rows) == [k \in 1..Len(rows) |-> Metrics(rows[k])]

\* C14: for every ordering of the same customers the aggregate has the
\* same rows in the same row order.
C14_PermutationInvariant ==
  LET rows == MetricsOf(Rows) IN
  \A p \in Orderings(Len(customers)) :
    MetricsOf(chartData(Permuted(customers, p), viewMode)) = rows

C16_MalformedBetweenFailsClosed ==
  (Loaded /\ filters.staffFilter.operator = "between"
     /\ "value2" \in DOMAIN filters.staffFilter
     /\ filters.staffFilter.value2 < filters.staffFilter.value1) =>
    customers = <<>>

\* between 10 and 5 over candidates with staff counts 5 and 10, with valid
\* dates: both lie between the swapped thresholds and both are dropped.
C16_Witness ==
  /\ Loaded
  /\ filters.staffFilter = [operator |-> "between", value1 |-> 10, value2 |-> 5]
  /\ customers = <<>>
  /\ \E i, k \in 1..Len(drawn) :
       /\ drawn[i].staffCount = 5 /\ drawn[k].staffCount = 10
       /\ \A j \in {i, k} :
            /\ filters.startDate <= drawn[j].validTill
            /\ drawn[j].validTill <= filters.endDate

\* C17: once every pending load timer has fired, the customers are those
\* generated from the latest filters, however many filter changes were
\* made while earlier loads were pending.
C17_LatestFiltersWin ==
  timers = <<>> => customers = generateMockData(filters, drawn)

\* All timers have fired; the latest filters select Beauty with operator
\* lt, after changes away from the initial filters, and the customers are
\* empty although a Beauty candidate was drawn.
C17_Witness ==
  /\ timers = <<>>
  /\ filters.professions = <<"Beauty">>
  /\ filters.staffFilter.operator = "lt"
  /\ \E i \in 1..Len(drawn) : drawn[i].profession = "Beauty"
  /\ customers = <<>>

\* C18: whenever the upsell modal is open, the average improvement that
\* getTotalStats computes is a quotient with a nonzero divisor.
C18_StatsWellDefined ==
  showUpsell => getTotalStats(upsellData).avgImprovement.den # 0

\* C20: with n filtered customers, page p of 1..ceil(n/50) shows the
\* customers at positions (p-1)*50+1 .. min(p*50, n) in filtered order, at
\* most 50 of them, and every filtered customer is shown on exactly one
\* page, once.
C20_PagesPartitionCustomers ==
  Loaded =>
    LET n == Len(customers)
        pages == 1..totalPages(customers)
        shown(p) == currentCustomers(customers, p)
    IN /\ totalPages(customers) * 50 >= n
       /\ (totalPages(customers) - 1) * 50 < n \/ n = 0
       /\ \A p \in pages :
            /\ shown(p) = SubSeq(customers, (p - 1) * 50 + 1, MathMin(p * 50, n))
            /\ Len(shown(p)) <= 50
       /\ \A j \in 1..n :
            \E p \in pages :
              /\ \E k \in 1..Len(shown(p)) : shown(p)[k] = customers[j]
              /\ \A q \in pages :
                   \A k \in 1..Len(shown(q)) :
                     shown(q)[k] = customers[j] => q = p /\ k = j - (p - 1) * 50

\* 51 customers, every second candidate up to number 102: the second and
\* last page is displayed and shows the one customer number 102.
C20_Witness ==
  /\ Loaded
  /\ Len(customers) = 51
  /\ currentPage = 2
  /\ currentPage = totalPages(customers)
  /\ currentCustomers(customers, currentPage) = <<customers[51]>>
  /\ customers[51].appointyId = 102

\* C22: whenever loading is false, the customers are those generated
\* under the current filters.
C22_LoadedMeansCurrent ==
  loading = FALSE => customers = generateMockData(filters, drawn)

\* C23: currentPage is within 1..max(1, totalPages).
C23_CurrentPageInRange ==
  currentPage \in 1..MathMax(1, totalPages(customers))

\* C26: the accounts of all rows add up to the number of filtered customers
\* and the appointments of all rows add up to the monthlyAppointmentCount
\* of all filtered customers, in every view mode.
C26_TotalsConserved ==
  LET rows == Rows IN
  /\ totalAccounts(rows) = Len(customers)
  /\ totalAppointments(rows) = VolumeOf(1..Len(customers))

\* Three customers in two membership rows, grouped otherwise than on load,
\* with appointment counts 5 and 40 among them.
C26_Witness ==
  /\ Loaded
  /\ viewMode = "membership"
  /\ Len(Rows) = 2
  /\ totalAccounts(Rows) = 3
  /\ totalAppointments(Rows) = 50

\* C21: a text that parseInt cannot convert is stored as the integer 0 in
\* staffFilter.value1, staffFilter.value2 and staffCount.min and as 100 in
\* staffCount.max; a NaN is never stored.
C21_InputCoerced ==
  \A text \in Texts :
    LET value1 == handleStaffFilterChange(filters, "value1", numericInput(text, 0))
        value2 == handleStaffFilterChange(filters, "value2", numericInput(text, 0))
        min == spread(upsellFilters, staffCountMin(upsellFilters, text))
        max == spread(upsellFilters, staffCountMax(upsellFilters, text))
    IN parseInt(text).isNaN =>
         /\ value1.staffFilter.value1 = 0
         /\ value2.staffFilter.value2 = 0
         /\ min.staffCount.min = 0
         /\ max.staffCount.max = 100

\* A number was typed into value1; in the open modal Max was 5 when the
\* older pending load was scheduled and a text without a number has put it
\* back to 100 since.
C21_Witness ==
  /\ filters.staffFilter.value1 = 55
  /\ showUpsell
  /\ Len(upsellTimers) = 2
  /\ upsellTimers[1].staffCount.max = 5
  /\ upsellTimers[2].staffCount.max = 100
  /\ upsellFilters.staffCount.max = 100
  /\ parseInt(<<"-", "x">>).isNaN

(***************************************************************************)
(* Date: a local calendar date is <<year, month, date>> with the month     *)
(* counted from 0 as getMonth does.  Day numbers count from 1970-01-01.    *)
(* The time of day and the time zone are not part of the model.            *)
(***************************************************************************)
\* Day(MakeDate(year, month, 1)) for a month in 0..11.
DayFromYearMonth(year, month) ==
  LET m == month + 1
      y == IF m <= 2 THEN year - 1 ELSE year
      era == y \div 400
      yoe == y - era * 400
      mp == IF m > 2 THEN m - 3 ELSE m + 9
      doy == (153 * mp + 2) \div 5
      doe == yoe * 365 + yoe \div 4 - yoe \div 100 + doy
  IN era * 146097 + doe - 719468

\* MakeDay: a month outside 0..11 carries into the year and a date outside
\* the month carries into the neighbouring months.
MakeDay(year, month, date) ==
  DayFromYearMonth(year + month \div 12, month % 12) + date - 1

\* YearFromTime, MonthFromTime and DateFromTime of a day number, computed
\* in stages: the day of the 400-year era, the year of the era, the day of
\* the year counted from 1 March, and the month and date.
dateOfDayOfYear[t \in Int \X Int] ==
  LET year == t[1]
      doy == t[2]
      mp == (5 * doy + 2) \div 153
  IN <<IF mp < 10 THEN year ELSE year + 1,
       IF mp < 10 THEN mp + 2 ELSE mp - 10,
       doy - (153 * mp + 2) \div 5 + 1>>

dateOfYearOfEra[t \in Int \X Int \X Int] ==
  LET era == t[1]
      doe == t[2]
      yoe == t[3]
  IN dateOfDayOfYear[<<yoe + era * 400,
                       doe - (365 * yoe + yoe \div 4 - yoe \div 100)>>]

dateOfDayOfEra[t \in Int \X Int] ==
  LET era == t[1]
      doe == t[2]
  IN dateOfYearOfEra[<<era, doe,
       (doe - doe \div 1460 + doe \div 36524 - doe \div 146096) \div 365>>]

dateOfShiftedDay[z \in Int] == dateOfDayOfEra[<<z \div 146097, z % 146097>>]

DateFromDay(day) == dateOfShiftedDay[day + 719468]

getFullYear(t) == t[1]
getMonth(t) == t[2]
getDate(t) == t[3]

\* Date.prototype.setDate and setMonth, as the date they leave.
setDate(t, date) == DateFromDay(MakeDay(getFullYear(t), getMonth(t), date))

setMonth(t, month) == DateFromDay(MakeDay(getFullYear(t), month, getDate(t)))

(***************************************************************************)
(* SpecControls: the controls of FilterControls used while the customers   *)
(* chart is shown.  The selections are toggled, the operator is chosen,    *)
(* value1 is typed, and value2 is typed while its input is rendered, which *)
(* is while the operator is 'between'.  The pending timers hold the        *)
(* filters of earlier renders.                                             *)
(***************************************************************************)
ControlProfessions == {"Healthcare", "Beauty", "all"}
ControlCountries == {"USA", "all"}
ControlOperators == {"gte", "lt", "between"}
ControlTexts == {<<"5">>, <<"x">>, <<"-", "5">>}

ControlCandidates ==
  {<<[profession |-> "Healthcare", country |-> "USA", membership |-> "Basic",
      staffCount |-> 5, monthlyAppointmentCount |-> 5, validTill |-> 200]>>}

InitControls == Mounted({AppFilters})

Value2Input(text) ==
  /\ filters.staffFilter.operator = "between"
  /\ StaffValueInput("value2", text)

NextControls ==
  \/ LoadTimer(ControlCandidates)
  \/ \E value \in ControlProfessions : MultiSelectChange("professions", value)
  \/ \E value \in ControlCountries : MultiSelectChange("countries", value)
  \/ \E value \in ControlOperators : StaffFilterChange("operator", value)
  \/ \E text \in ControlTexts : StaffValueInput("value1", text)
  \/ \E text \in ControlTexts : Value2Input(text)

SpecControls == InitControls /\ [][NextControls]_vars

\* C24: in every reachable filter state, and in the filters every pending
\* load has captured, staffFilter.value2 is defined only when the operator
\* is 'between'; a step that leaves the operator different from 'between'
\* leaves value2 undefined.
Value2OnlyBetween(f) ==
  "value2" \in DOMAIN f.staffFilter => f.staffFilter.operator = "between"

C24_Value2OnlyBetween ==
  /\ Value2OnlyBetween(filters)
  /\ \A k \in 1..Len(timers) : Value2OnlyBetween(timers[k])
  /\ \A op \in ControlOperators \ {"between"} :
       "value2" \notin DOMAIN handleStaffFilterChange(filters, "operator", op).staffFilter

\* value2 was typed while the operator was 'between' (the pending load has
\* captured it) and the operator has been changed to 'lt' since.
C24_Witness ==
  /\ Len(timers) = 2
  /\ timers[1].staffFilter.operator = "between"
  /\ "value2" \in DOMAIN timers[1].staffFilter
  /\ timers[1].staffFilter.value2 = 5
  /\ filters.staffFilter.operator = "lt"
  /\ "value2" \notin DOMAIN filters.staffFilter

\* The options of the three dropdowns; each dropdown also has 'All'.
professionOptions == <<"Healthcare", "Beauty", "Fitness", "Education", "Legal">>
countryOptions ==
  <<"USA", "Canada", "UK", "Australia", "India", "Germany", "France", "Japan">>
membershipOptions == <<"Basic", "Pro", "Premium", "Enterprise">>

optionsOf(key) ==
  IF key = "professions" THEN professionOptions
  ELSE IF key = "countries" THEN countryOptions
  ELSE membershipOptions

SelectionKeys == {"professions", "countries", "memberships"}

\* The set of the values a selection holds.
selectedValues(arr) == {arr[k] : k \in 1..Len(arr)}

\* C27: a selection never holds a value twice; a click on a selected value
\* removes it, a click on another value adds it, two clicks on the same
\* value restore the set of selected values, and a click on 'All' empties
\* the selection.
C27_Toggle ==
  \A key \in SelectionKeys :
    LET arr == filters[key]
        click(f, value) == handleMultiSelectChange(f, key, value)
    IN /\ Cardinality(selectedValues(arr)) = Len(arr)
       /\ click(filters, "all")[key] = <<>>
       /\ \A k \in 1..Len(optionsOf(key)) :
            LET option == optionsOf(key)[k]
                once == click(filters, option)
                twice == click(once, option)
            IN /\ selectedValues(once[key]) =
                    IF option \in selectedValues(arr)
                      THEN selectedValues(arr) \ {option}
                      ELSE selectedValues(arr) \cup {option}
               /\ Cardinality(selectedValues(once[key])) = Len(once[key])
               /\ selectedValues(twice[key]) = selectedValues(arr)
               /\ Cardinality(selectedValues(twice[key])) = Len(twice[key])

\* Beauty was selected when the pending load was scheduled and Healthcare
\* has been added since; two clicks on Beauty give the same set in another
\* order.
C27_Witness ==
  /\ Len(timers) = 2
  /\ timers[1].professions = <<"Beauty">>
  /\ filters.professions = <<"Beauty", "Healthcare">>
  /\ handleMultiSelectChange(handleMultiSelectChange(filters, "professions", "Beauty"),
                             "professions", "Beauty").professions
       = <<"Healthcare", "Beauty">>

(***************************************************************************)
(* SpecApp: App with its sidebar, the controls and the customers chart.    *)
(***************************************************************************)
AppProfessions == {"Healthcare", "all"}
AppOperators == {"lt", "between"}
AppStartDates == {1, 5}

FilterKeys ==
  {"startDate", "endDate", "professions", "countries", "memberships", "staffFilter"}

InitApp == Mounted({AppFilters})

NextApp ==
  \/ LoadTimer(ControlCandidates)
  \/ \E mode \in ViewModes : SetViewMode(mode)
  \/ \E view \in DashboardViews : SetCurrentView(view)
  \/ \E value \in AppStartDates : DateChange("startDate", value)
  \/ \E value \in AppProfessions : MultiSelectChange("professions", value)
  \/ \E value \in AppOperators : StaffFilterChange("operator", value)

SpecApp == InitApp /\ [][NextApp]_vars

\* C28: a step changes at most one field of the filters; each handler,
\* applied to the current filters, leaves every field but its target as it
\* is; a change of the dashboard view leaves the filters unchanged; a change
\* of the chart's view mode leaves the customers and the current page
\* unchanged.
C28_Frame ==
  [][/\ \A key \in FilterKeys :
          filters'[key] # filters[key] =>
            \A other \in FilterKeys \ {key} : filters'[other] = filters[other]
     /\ DOMAIN filters' = FilterKeys
     /\ \A other \in FilterKeys \ {"startDate"} :
          \A value \in AppStartDates :
            handleFilterChange(filters, "startDate", value)[other] = filters[other]
     /\ \A key \in SelectionKeys : \A other \in FilterKeys \ {key} :
          \A k \in 1..Len(optionsOf(key)) :
            handleMultiSelectChange(filters, key, optionsOf(key)[k])[other] = filters[other]
     /\ \A other \in FilterKeys \ {"staffFilter"} :
          \A value \in ControlOperators :
            handleStaffFilterChange(filters, "operator", value)[other] = filters[other]
     /\ currentView' # currentView => filters' = filters
     /\ (viewMode' # viewMode /\ currentView' = currentView) =>
          customers' = customers /\ currentPage' = currentPage
    ]_vars

\* The date, the professions and the operator were changed and the view
\* was switched to the funnel after that.
C28_Witness ==
  /\ currentView = "funnel"
  /\ filters.startDate = 5
  /\ filters.professions = <<"Healthcare">>
  /\ filters.staffFilter.operator = "between"
  /\ filters.endDate = AppFilters.endDate
  /\ filters.countries = AppFilters.countries

(***************************************************************************)
(* CohortAnalysisDashboard, a modal of FunnelDashboard.  A cohort name is  *)
(* the tuple of the parts toLocaleDateString prints; cohortDate is the     *)
(* local calendar date.  Of the random fields totalUsers is kept.          *)
(***************************************************************************)
MaxCohortPending == 2

CohortPeriods == {"weekly", "monthly"}

monthShort ==
  <<"Jan", "Feb", "Mar", "Apr", "May", "Jun", "Jul", "Aug", "Sep", "Oct", "Nov", "Dec">>

rangeToMonths(cohortRange) ==
  IF cohortRange = "3months" THEN 3
  ELSE IF cohortRange = "6months" THEN 6
  ELSE 12

\* Math.floor(monthsCount * 4.33) for the weekly period.
periodsCount(f) ==
  LET monthsCount == rangeToMonths(f.cohortRange) IN
  IF f.cohortPeriod = "weekly" THEN (monthsCount * 433) \div 100 ELSE monthsCount

\* The date and the name of the cohort the loop builds for index i.
cohortDateOf(f, today, i) ==
  IF f.cohortPeriod = "weekly"
    THEN setDate(today, getDate(today) - (i * 7))
    ELSE setMonth(today, getMonth(today) - i)

cohortNameOf(f, cohortDate) ==
  IF f.cohortPeriod = "weekly"
    THEN <<"Week", monthShort[getMonth(cohortDate) + 1], getDate(cohortDate)>>
    ELSE <<monthShort[getMonth(cohortDate) + 1], getFullYear(cohortDate)>>

\* The object pushed for a cohort date, as a function of the date so that
\* the date is computed once.
cohortOf[t \in CohortPeriods \X (Int \X Int \X Int) \X Int] ==
  LET f == [cohortPeriod |-> t[1]]
      cohortDate == t[2]
  IN [cohortName |-> cohortNameOf(f, cohortDate),
      cohortDate |-> cohortDate,
      totalUsers |-> t[3]]

\* The loop counts i down from periodsCount - 1 to 0 and pushes, so the
\* k-th cohort of the result is the one of i = periodsCount - k.
generateMockCohortData(f, today, users) ==
  [k \in 1..periodsCount(f) |->
     cohortOf[<<f.cohortPeriod, cohortDateOf(f, today, periodsCount(f) - k),
                50 + users[k]>>]]

generateMockRetentionCohortData(f, today, users) ==
  [k \in 1..periodsCount(f) |->
     cohortOf[<<f.cohortPeriod, cohortDateOf(f, today, periodsCount(f) - k),
                100 + users[k]>>]]

cohortLoadEffect(f) ==
  /\ Len(cohortTimers) < MaxCohortPending
  /\ cohortLoading' = TRUE
  /\ cohortTimers' = Append(cohortTimers, f)

OpenCohort ==
  /\ currentView = "funnel"
  /\ ~showCohort
  /\ showCohort' = TRUE
  /\ cohortLoadEffect(cohortFilters)
  /\ UNCHANGED <<cohortFilters, cohortData, cohortToday>>
  /\ UNCHANGED <<appVars, chartVars, upsellVars, bucketVars>>

CloseCohort ==
  /\ showCohort
  /\ showCohort' = FALSE
  /\ UNCHANGED <<cohortFilters, cohortData, cohortLoading, cohortTimers, cohortToday>>
  /\ UNCHANGED <<appVars, chartVars, upsellVars, bucketVars>>

updateCohortFilters(updates) ==
  /\ showCohort
  /\ cohortFilters' = spread(cohortFilters, updates)
  /\ cohortLoadEffect(cohortFilters')
  /\ UNCHANGED <<showCohort, cohortData, cohortToday>>
  /\ UNCHANGED <<appVars, chartVars, upsellVars, bucketVars>>

\* The setTimeout callback: new Date() is the day the callback runs on.
CohortLoadTimer(Todays, Users) ==
  /\ cohortTimers # <<>>
  /\ \E today \in Todays, users \in Users :
       /\ cohortToday' = today
       /\ cohortData' = generateMockCohortData(Head(cohortTimers), today, users)
  /\ cohortLoading' = FALSE
  /\ cohortTimers' = Tail(cohortTimers)
  /\ UNCHANGED <<showCohort, cohortFilters>>
  /\ UNCHANGED <<appVars, chartVars, upsellVars, bucketVars>>

(***************************************************************************)
(* SpecCohort: the funnel view with the cohort modal, on days that include *)
(* the ends of months and a leap day.                                      *)
(***************************************************************************)
CohortRanges == {"3months", "6months", "12months"}
CohortFilterSet == [cohortPeriod : CohortPeriods, cohortRange : CohortRanges]

CohortTodays ==
  {<<2025, 4, 15>>, <<2025, 0, 28>>, <<2025, 2, 29>>, <<2025, 2, 30>>,
   <<2025, 2, 31>>, <<2024, 1, 29>>, <<2025, 11, 31>>, <<2025, 5, 30>>}

\* Math.floor(Math.random() * 150) per cohort: all the least, all the
\* greatest, and values that differ from cohort to cohort.
CohortUsers ==
  {[k \in 1..periodsCount([cohortPeriod |-> "weekly", cohortRange |-> "12months"]) |-> u] :
     u \in {0, 149}}
  \cup {[k \in 1..periodsCount([cohortPeriod |-> "weekly", cohortRange |-> "12months"]) |->
          (k * 37) % 150]}

InitCohort == InitUpsell

NextCohort ==
  \/ OpenCohort
  \/ CloseCohort
  \/ \E period \in CohortPeriods : updateCohortFilters([cohortPeriod |-> period])
  \/ \E range \in CohortRanges : updateCohortFilters([cohortRange |-> range])
  \/ CohortLoadTimer(CohortTodays, CohortUsers)

SpecCohort == InitCohort /\ [][NextCohort]_vars

\* The count of the months from year 0 to the month of a date.
monthIndex(t) == getFullYear(t) * 12 + getMonth(t)

namesDistinct(cohorts) ==
  \A j, k \in 1..Len(cohorts) :
    cohorts[j].cohortName = cohorts[k].cohortName => j = k

\* What the list returned for the filters f on the day today has to be.
cohortsAsSpecified(f, today, cohorts) ==
  LET N == rangeToMonths(f.cohortRange) IN
  IF f.cohortPeriod = "monthly"
    THEN /\ Len(cohorts) = N
         /\ \A k \in 1..Len(cohorts) :
              monthIndex(cohorts[k].cohortDate) = monthIndex(today) - (N - k)
         /\ namesDistinct(cohorts)
    ELSE /\ Len(cohorts) = (IF N = 3 THEN 12 ELSE IF N = 6 THEN 25 ELSE 51)
         /\ \A k \in 1..(Len(cohorts) - 1) :
              LET this == cohorts[k].cohortDate
                  next == cohorts[k + 1].cohortDate
              IN MakeDay(next[1], next[2], next[3])
                   = MakeDay(this[1], this[2], this[3]) + 7

\* C30: on every day, the loaded cohorts and the lists both generators
\* return have N entries, one for each of the N consecutive months that end
\* with the current month, under distinct names (monthly), or 12, 25 or 51
\* entries 7 days apart (weekly).
C30_CohortsAsSpecified ==
  cohortToday # <<>> =>
    \A f \in CohortFilterSet : \A users \in CohortUsers :
      /\ cohortsAsSpecified(f, cohortToday,
                            generateMockRetentionCohortData(f, cohortToday, users))
      /\ cohortData = generateMockCohortData(f, cohortToday, users) =>
           cohortsAsSpecified(f, cohortToday, cohortData)

(***************************************************************************)
(* ActiveAccountsDetailDashboard, a modal of FunnelDashboard: the x-axis   *)
(* select and the bucket management, which is rendered while the x-axis is *)
(* staffBuckets.  Date.now() has advanced between two clicks.  The chart   *)
(* data of the modal is not kept; its categories are those                 *)
(* generateMockDetailData reads from the filters.  wasEmpty records that   *)
(* the bucket list has been empty since the view was mounted.              *)
(***************************************************************************)
MaxBuckets == 4
MaxClock == 7

DetailXAxes == {"profession", "country", "membership", "staffBuckets"}

OpenDetail ==
  /\ currentView = "funnel"
  /\ ~showDetail
  /\ showDetail' = TRUE
  /\ UNCHANGED <<detailFilters, clock, wasEmpty>>
  /\ UNCHANGED <<appVars, chartVars, upsellVars, cohortVars>>

CloseDetail ==
  /\ showDetail
  /\ showDetail' = FALSE
  /\ UNCHANGED <<detailFilters, clock, wasEmpty>>
  /\ UNCHANGED <<appVars, chartVars, upsellVars, cohortVars>>

updateDetailFilters(updates) ==
  /\ showDetail
  /\ detailFilters' = spread(detailFilters, updates)
  /\ wasEmpty' = (wasEmpty \/ detailFilters'.staffBuckets = <<>>)
  /\ UNCHANGED showDetail
  /\ UNCHANGED <<appVars, chartVars, upsellVars, cohortVars>>

SetXAxis(xAxis) ==
  /\ updateDetailFilters([xAxis |-> xAxis])
  /\ UNCHANGED clock

addStaffBucket ==
  /\ detailFilters.xAxis = "staffBuckets"
  /\ Len(detailFilters.staffBuckets) < MaxBuckets
  /\ clock < MaxClock
  /\ clock' = clock + 1
  /\ LET newBucket == [id |-> clock',
                       name |-> <<"Bucket", Len(detailFilters.staffBuckets) + 1>>,
                       min |-> 0,
                       max |-> 50]
     IN updateDetailFilters(
          [staffBuckets |-> Append(detailFilters.staffBuckets, newBucket)])

withoutId(staffBuckets, id) == SelectSeq(staffBuckets, LAMBDA bucket : bucket.id # id)

removeStaffBucket(id) ==
  /\ detailFilters.xAxis = "staffBuckets"
  /\ \E k \in 1..Len(detailFilters.staffBuckets) : detailFilters.staffBuckets[k].id = id
  /\ updateDetailFilters([staffBuckets |-> withoutId(detailFilters.staffBuckets, id)])
  /\ UNCHANGED clock

\* The categories generateMockDetailData builds one chart row for.
detailCategories(f) ==
  IF f.xAxis = "profession"
    THEN <<"Doctor", "Nurse", "Therapist", "Administrator", "Specialist">>
  ELSE IF f.xAxis = "country"
    THEN <<"USA", "Canada", "UK", "Australia", "Germany">>
  ELSE IF f.xAxis = "membership"
    THEN <<"Basic", "Premium", "Enterprise", "Pro", "Starter">>
  ELSE [k \in 1..Len(f.staffBuckets) |-> f.staffBuckets[k].name]

(***************************************************************************)
(* SpecBuckets: the funnel view with the detail modal.                     *)
(***************************************************************************)
InitBuckets == InitUpsell

NextBuckets ==
  \/ OpenDetail
  \/ CloseDetail
  \/ \E xAxis \in DetailXAxes : SetXAxis(xAxis)
  \/ addStaffBucket
  \/ \E id \in 1..MaxClock : removeStaffBucket(id)

SpecBuckets == InitBuckets /\ [][NextBuckets]_vars

\* C29: once the bucket list has been empty, after any adds and removes the
\* buckets have pairwise distinct names, so grouping by staffBuckets gives
\* one category per bucket; removing an id takes out the bucket at its
\* position and leaves the others in their order.
C29_BucketNamesDistinct ==
  LET buckets == detailFilters.staffBuckets IN
  /\ wasEmpty =>
       /\ \A j, k \in 1..Len(buckets) : buckets[j].name = buckets[k].name => j = k
       /\ detailFilters.xAxis = "staffBuckets" =>
            Cardinality({detailCategories(detailFilters)[k] : k \in 1..Len(buckets)})
              = Len(buckets)
  /\ \A k \in 1..Len(buckets) :
       withoutId(buckets, buckets[k].id)
         = [j \in 1..(Len(buckets) - 1) |-> IF j < k THEN buckets[j] ELSE buckets[j + 1]]

(***************************************************************************)
(* SpecLoad: the loads of the customers chart and of the upsell and cohort *)
(* modals, with filter changes, closes and view switches while timers are  *)
(* pending.  A timer that has been scheduled fires: each timer action is   *)
(* weakly fair.                                                            *)
(***************************************************************************)
LoadProfessions == {"Healthcare", "all"}
LoadViews == {"active-customers", "funnel"}
LoadTodays == {<<2025, 4, 15>>}
LoadUsers == {[k \in 1..periodsCount([cohortPeriod |-> "weekly", cohortRange |-> "6months"]) |-> 0]}

InitLoad == Mounted({AppFilters})

NextLoad ==
  \/ LoadTimer(ControlCandidates)
  \/ \E value \in LoadProfessions : MultiSelectChange("professions", value)
  \/ \E view \in LoadViews : SetCurrentView(view)
  \/ OpenUpsell
  \/ CloseUpsell
  \/ updateFilters([xAxis |-> "country"])
  \/ UpsellLoadTimer(InputDraws)
  \/ OpenCohort
  \/ CloseCohort
  \/ updateCohortFilters([cohortPeriod |-> "monthly"])
  \/ CohortLoadTimer(LoadTodays, LoadUsers)

SpecLoad ==
  /\ InitLoad
  /\ [][NextLoad]_vars
  /\ WF_vars(LoadTimer(ControlCandidates))
  /\ WF_vars(UpsellLoadTimer(InputDraws))
  /\ WF_vars(CohortLoadTimer(LoadTodays, LoadUsers))

\* C25: a loading flag that is true becomes false, for the chart and for
\* both modals, whatever the user does before the timer fires; and while no
\* timer is pending the flag is false.
C25_LoadingTerminates ==
  /\ loading ~> ~loading
  /\ upsellLoading ~> ~upsellLoading
  /\ cohortLoading ~> ~cohortLoading
  /\ [](timers = <<>> => ~loading)
  /\ [](upsellTimers = <<>> => ~upsellLoading)
  /\ [](cohortTimers = <<>> => ~cohortLoading)

\* The cohort modal was closed and its load has completed; the upsell modal
\* was closed while two loads for different filters were pending and its
\* flag is still set.
C25_Witness ==
  /\ ~showCohort
  /\ cohortData # <<>>
  /\ ~cohortLoading
  /\ cohortTimers = <<>>
  /\ ~showUpsell
  /\ upsellLoading
  /\ Len(upsellTimers) = 2
  /\ upsellTimers[1] # upsellTimers[2]

====
